---- MODULE Spec2Model ----
(***************************************************************************)
(* NetLSD (karateclub/graph_embedding/netlsd.py): the heat kernel trace of *)
(* the normalized Laplacian over a vector of time scales, one row per      *)
(* graph.                                                                  *)
(*                                                                         *)
(* Numbers.  Eigenvalues and log10 time scales are exact rationals         *)
(* [num, den] in lowest terms.  exp is kept symbolic: one heat kernel      *)
(* trace entry  (sum_i exp(-t * ev_i)) / nodes  is the record              *)
(*   [ones  |-> the number of terms with ev_i = 0 (exp(-t*0) = 1),         *)
(*    decay |-> the terms <<log10 t, ev_i>> with ev_i > 0, in order,       *)
(*    nodes |-> the divisor].                                              *)
(* Arrays are 1-indexed sequences; Python's 0-based slice bounds are       *)
(* normalised by PySlice.                                                  *)
(***************************************************************************)
EXTENDS Integers, Sequences, FiniteSets, TLC

VARIABLES
    scale_min,       \* self.scale_min
    scale_max,       \* self.scale_max
    scale_steps,     \* self.scale_steps
    approximations,  \* self.approximations
    _embedding,      \* self._embedding: [bound |-> is the attribute set, value |-> the list of rows]
    graphs,          \* the caller's graph objects handed to the last call, as the call left them
    call,            \* the last operation: its arguments as passed, what it raised, what it returned
    fitted           \* history: has a fit completed; the graphs of the last one that did, as it
                     \* left them, and whether it stored fewer rows than it found stored

vars == <<scale_min, scale_max, scale_steps, approximations, _embedding, graphs, call, fitted>>

(***************************************************************************)
(* Bounds of the model and the inputs drawn from them.                     *)
(***************************************************************************)
MaxNodes == 7
MaxBatch == 2
DefaultApproximations == 50

\* Edges (u <= v) a caller's graph may hold; <<0, 0>> is a self-loop.
EdgeUniverse == {<<0, 0>>, <<0, 1>>, <<1, 2>>, <<0, 2>>}

Graph(n, edges) == [n |-> n, edges |-> edges]

GraphPool ==
    UNION {{Graph(n, E) : E \in SUBSET {e \in EdgeUniverse : e[2] < n}} : n \in 1..MaxNodes}

\* The graphs of multi-graph batches: a small graph with a self-loop (exact
\* branch) and a large one (approximate branch when 2k + 2 < MaxNodes).
BatchPool ==
    {Graph(2, {<<0, 0>>, <<0, 1>>}), Graph(MaxNodes, {<<0, 1>>, <<1, 2>>})}

RECURSIVE SeqsUpTo(_, _)
SeqsUpTo(S, len) ==
    IF len = 0 THEN {<<>>}
    ELSE LET shorter == SeqsUpTo(S, len - 1)
         IN shorter \cup {Append(q, x) : q \in {r \in shorter : Len(r) = len - 1}, x \in S}

Batches == SeqsUpTo(BatchPool, MaxBatch)

\* Constructor arguments: <<scale_min, scale_max>>, scale_steps, approximations.
\* The single-graph specification draws from all of them, the fit /
\* get_embedding specification from the Batch* subsets.
ScaleBounds == {<<-2, 2>>, <<0, 0>>}
ScaleSteps == {-1, 0, 1, 2, 3}
Approximations == {0, 1, 2, DefaultApproximations}
BatchScaleSteps == {0, 3}
BatchApproximations == {2, DefaultApproximations}

(***************************************************************************)
(* Rationals.                                                              *)
(***************************************************************************)
Abs(x) == IF x < 0 THEN -x ELSE x
Min(a, b) == IF a < b THEN a ELSE b
Max(a, b) == IF a > b THEN a ELSE b

RECURSIVE GCD(_, _)
GCD(a, b) == IF b = 0 THEN a ELSE GCD(b, a % b)

\* n / d in lowest terms, d > 0.
Rat(n, d) == LET g == GCD(Abs(n), d) IN [num |-> n \div g, den |-> d \div g]
Zero == Rat(0, 1)
RatLeq(a, b) == a.num * b.den <= b.num * a.den

Reverse(s) == [i \in 1..Len(s) |-> s[Len(s) + 1 - i]]

(***************************************************************************)
(* numpy                                                                   *)
(***************************************************************************)
\* np.linspace(start, stop, num), num >= 0: num evenly spaced samples, both
\* endpoints included; one sample is the start alone.
linspace(start, stop, num) ==
    [i \in 1..num |->
        IF num = 1 THEN start
        ELSE Rat(start.num * stop.den * (num - 1)
                   + (i - 1) * (stop.num * start.den - start.num * stop.den),
                 start.den * stop.den * (num - 1))]

\* np.logspace(start, stop, num) = 10 ** linspace(start, stop, num), kept as
\* the exponents; a negative num raises ValueError.
logspace(start, stop, num) ==
    IF num < 0 THEN [error |-> "ValueError", value |-> <<>>]
    ELSE [error |-> "none", value |-> linspace(Rat(start, 1), Rat(stop, 1), num)]

\* Python's slice a[start:stop] of a sequence of length len: the half-open
\* 0-based range [lo, hi) after negative bounds are taken from the end and
\* both are clipped.
PyIndex(i, len) == IF i < 0 THEN Max(i + len, 0) ELSE Min(i, len)
PySlice(start, stop, len) ==
    LET lo == PyIndex(start, len)
    IN [lo |-> lo, hi |-> Max(PyIndex(stop, len), lo)]

\* ret[start:stop] = values, where ret is the array so far or the exception
\* an earlier statement raised (which then stands): the shapes must agree, or
\* values holds a single element that is broadcast; anything else raises
\* ValueError.
SetSlice(ret, start, stop, values) ==
    LET sl == PySlice(start, stop, Len(ret.value))
    IN IF ret.error # "none" THEN ret
       ELSE IF Len(values) = sl.hi - sl.lo
       THEN [error |-> "none",
             value |-> [i \in 1..Len(ret.value) |->
                          IF i > sl.lo /\ i <= sl.hi THEN values[i - sl.lo] ELSE ret.value[i]]]
       ELSE IF Len(values) = 1
       THEN [error |-> "none",
             value |-> [i \in 1..Len(ret.value) |->
                          IF i > sl.lo /\ i <= sl.hi THEN values[1] ELSE ret.value[i]]]
       ELSE [error |-> "ValueError", value |-> ret.value]

\* np.zeros(n)
zeros(n) == [error |-> "none", value |-> [i \in 1..n |-> Zero]]

(***************************************************************************)
(* networkx                                                                *)
(***************************************************************************)
selfloop_edges(graph) == {e \in graph.edges : e[1] = e[2]}

remove_edges_from(graph, ebunch) == [graph EXCEPT !.edges = @ \ ebunch]

Degree(graph, i) == Cardinality({e \in graph.edges : e[1] = i \/ e[2] = i})

normalized_laplacian_matrix_unit_diag(graph) ==
    [shape |-> graph.n,
     diag |-> [i \in 0..(graph.n - 1) |-> 1],
     offdiag |-> {<<e[1], e[2], Degree(graph, e[1]), Degree(graph, e[2])>> :
                    e \in {f \in graph.edges : f[1] # f[2]}}]

\* nx.normalized_laplacian_matrix(graph, nodelist = range(n)) of a graph
\* without self-loops: L[i,i] = 1 when deg(i) > 0 and 0 for an isolated node,
\* L[i,j] = -1 / sqrt(deg(i) * deg(j)) on an edge.  The off-diagonal entries
\* are kept as the edge with the two degrees.
normalized_laplacian_matrix(graph) ==
    [shape |-> graph.n,
     diag |-> [i \in 0..(graph.n - 1) |-> IF Degree(graph, i) > 0 THEN 1 ELSE 0],
     offdiag |-> {<<e[1], e[2], Degree(graph, e[1]), Degree(graph, e[2])>> :
                    e \in {f \in graph.edges : f[1] # f[2]}}]

(***************************************************************************)
(* scipy.sparse.linalg.eigsh                                               *)
(***************************************************************************)
\* The connected components of the matrix's sparsity pattern.
Neighbours(mat, S) ==
    S \cup {j \in 0..(mat.shape - 1) :
              \E e \in mat.offdiag : (e[1] \in S /\ e[2] = j) \/ (e[2] \in S /\ e[1] = j)}

RECURSIVE Reach(_, _)
Reach(mat, S) == LET T == Neighbours(mat, S) IN IF T = S THEN S ELSE Reach(mat, T)

Components(mat) == {Reach(mat, {i}) : i \in 0..(mat.shape - 1)}

\* The eigenvalues of one diagonal block, ascending: an isolated node has its
\* diagonal entry (0); an edge K2 has {0, 2}; a path on three nodes {0, 1, 2};
\* a triangle {0, 3/2, 3/2}.  Blocks of the graphs of GraphPool have at most
\* three nodes.
ComponentEigenvalues(mat, C) ==
    LET m == Cardinality(C)
        edges == Cardinality({e \in mat.offdiag : e[1] \in C})
    IN CASE m = 1 -> <<Rat(CHOOSE d \in {mat.diag[i] : i \in C} : TRUE, 1)>>
         [] m = 2 -> <<Zero, Rat(2, 1)>>
         [] m = 3 /\ edges = 2 -> <<Zero, Rat(1, 1), Rat(2, 1)>>
         [] m = 3 /\ edges = 3 -> <<Zero, Rat(3, 2), Rat(3, 2)>>

RECURSIVE Insert(_, _)
Insert(s, x) ==
    IF s = <<>> THEN <<x>>
    ELSE IF RatLeq(x, s[1]) THEN <<x>> \o s
    ELSE <<s[1]>> \o Insert(Tail(s), x)

RECURSIVE InsertAll(_, _)
InsertAll(s, xs) == IF xs = <<>> THEN s ELSE InsertAll(Insert(s, xs[1]), Tail(xs))

RECURSIVE BlockSpectrum(_, _)
BlockSpectrum(mat, comps) ==
    IF comps = {} THEN <<>>
    ELSE LET C == CHOOSE c \in comps : TRUE
         IN InsertAll(BlockSpectrum(mat, comps \ {C}), ComponentEigenvalues(mat, C))

\* All eigenvalues of the matrix, ascending (they are >= 0, so ascending in
\* magnitude too).
Spectrum(mat) == BlockSpectrum(mat, Components(mat))

\* eigsh(mat, k, which = which, return_eigenvectors = False).  k <= 0 raises
\* ValueError ("k must be greater than 0"), k >= n on a sparse matrix raises
\* TypeError; ARPACK may give up (ArpackNoConvergence), which is the input
\* `converged`.  Without eigenvectors ARPACK hands the Ritz values back as it
\* sorted them for `which`: "SM" by decreasing magnitude, "LM" by increasing
\* magnitude.  (mode = "cayley" has no effect without sigma.)
eigsh(mat, k, which, converged) ==
    LET n == mat.shape
        all == Spectrum(mat)
    IN IF k <= 0 THEN [error |-> "ValueError", value |-> <<>>]
       ELSE IF k >= n THEN [error |-> "TypeError", value |-> <<>>]
       ELSE IF ~converged THEN [error |-> "ArpackNoConvergence", value |-> <<>>]
       ELSE IF which = "SM" THEN [error |-> "none", value |-> Reverse(SubSeq(all, 1, k))]
       ELSE [error |-> "none", value |-> SubSeq(all, n - k + 1, n)]

(***************************************************************************)
(* NetLSD                                                                  *)
(***************************************************************************)
\* exp(-t * ev) summed over eivals, then divided by nodes (symbolic, see the
\* head of the module).
HeatEntry(t, eivals, nodes) ==
    LET decaying == SelectSeq(eivals, LAMBDA ev : ev.num # 0)
    IN [ones |-> Len(eivals) - Len(decaying),
        decay |-> [i \in 1..Len(decaying) |-> <<t, decaying[i]>>],
        nodes |-> nodes]

_calculate_heat_kernel_trace_plus_one(eivals) ==
    LET timescales == logspace(scale_min, scale_max, scale_steps)
        nodes == Len(eivals) + 1
    IN IF timescales.error # "none" THEN [error |-> timescales.error, value |-> <<>>]
       ELSE [error |-> "none",
             value |-> [idx \in 1..Len(timescales.value) |->
                          HeatEntry(timescales.value[idx], eivals, nodes)]]

_calculate_heat_kernel_trace(eivals) ==
    LET timescales == logspace(scale_min, scale_max, scale_steps)
        nodes == Len(eivals)
    IN IF timescales.error # "none" THEN [error |-> timescales.error, value |-> <<>>]
       ELSE [error |-> "none",
             value |-> [idx \in 1..Len(timescales.value) |->
                          HeatEntry(timescales.value[idx], eivals, nodes)]]

_updown_linear_approx(eigvals_lower, eigvals_upper, nv) ==
    LET nal == Len(eigvals_lower)
        nau == Len(eigvals_upper)
    IN SetSlice(SetSlice(SetSlice(zeros(nv), 0, nal, eigvals_lower),
                         -nau, nv, eigvals_upper),
                nal - 1, -nau + 1,
                linspace(eigvals_lower[nal], eigvals_upper[1], nv - nal - nau + 2))

\* The approximate branch once both eigsh calls are back: the first of them
\* to raise ends it; otherwise the bands (the lower one reversed) are joined.
ApproximateBranch(lo, up, nv) ==
    IF lo.error # "none" \/ up.error # "none"
    THEN [branch |-> "approximate",
          error |-> IF lo.error # "none" THEN lo.error ELSE up.error,
          value |-> <<>>, lo_eivals |-> <<>>, up_eivals |-> <<>>]
    ELSE [branch |-> "approximate", lo_eivals |-> Reverse(lo.value), up_eivals |-> up.value]
         @@ _updown_linear_approx(Reverse(lo.value), up.value, nv)

ExactBranch(eivals) ==
    [branch |-> "exact", lo_eivals |-> <<>>, up_eivals |-> <<>>] @@ eivals

_calculate_eigenvalues(mat, converged) ==
    IF 2 * approximations + 2 < mat.shape
    THEN ApproximateBranch(eigsh(mat, approximations, "SM", converged),
                           eigsh(mat, approximations, "LM", converged),
                           mat.shape)
    ELSE ExactBranch(eigsh(mat, mat.shape - 1, "SM", converged))

\* What one graph's pipeline leaves behind: the graph as the call left it, the
\* Laplacian's size, the eigenvalue estimate and the row, or the exception.
NetLSDOutcome(graph, eigen_values, heat_kernel_trace) ==
    [graph |-> graph,
     nv |-> graph.n,
     branch |-> eigen_values.branch,
     lo_eivals |-> eigen_values.lo_eivals,
     up_eivals |-> eigen_values.up_eivals,
     eigen_values |-> IF eigen_values.error # "none" THEN <<>> ELSE eigen_values.value,
     error |-> IF eigen_values.error # "none" THEN eigen_values.error
               ELSE heat_kernel_trace.error,
     row |-> IF eigen_values.error # "none" THEN <<>> ELSE heat_kernel_trace.value]

_calculate_netlsd(graph, converged) ==
    LET stripped == remove_edges_from(graph, selfloop_edges(graph))
        eigen_values ==
            _calculate_eigenvalues(normalized_laplacian_matrix(stripped), converged)
        heat_kernel_trace == _calculate_heat_kernel_trace(eigen_values.value)
    IN NetLSDOutcome(stripped, eigen_values, heat_kernel_trace)

\* __init__ stores the four arguments and nothing else: _embedding is not
\* an attribute of the instance until fit assigns it.
init_embedding_empty_list == [bound |-> TRUE, value |-> <<>>]

init_embedding == [bound |-> FALSE, value |-> <<>>]

\* The index of the first graph of the batch whose computation raised, 0 if none did.
FirstRaise(results) ==
    LET raised == {i \in 1..Len(results) : results[i].error # "none"}
    IN IF raised = {} THEN 0 ELSE CHOOSE i \in raised : \A j \in raised : i <= j

Rows(results) == [i \in 1..Len(results) |-> results[i].row]

fit_assign_reversed(old, results) ==
    IF FirstRaise(results) = 0
    THEN [bound |-> TRUE, value |-> Reverse(Rows(results))]
    ELSE old

fit_assign_extend(old, results) ==
    IF FirstRaise(results) = 0
    THEN [bound |-> TRUE, value |-> old.value \o Rows(results)]
    ELSE old

fit_assign_partial(old, results) ==
    IF FirstRaise(results) = 0
    THEN [bound |-> TRUE, value |-> Rows(results)]
    ELSE [bound |-> TRUE, value |-> Rows(SubSeq(results, 1, FirstRaise(results) - 1))]

\* self._embedding = [... for graph in graphs]: the list is built in full, in
\* the order of graphs, before the assignment; an exception in the
\* comprehension leaves the attribute as it was.
fit_assign(old, results) ==
    IF FirstRaise(results) = 0
    THEN [bound |-> TRUE, value |-> Rows(results)]
    ELSE old

\* np.array(self._embedding)
np_array(rows) == rows

NoCall ==
    [op |-> "__init__", error |-> "none", index |-> 0, args |-> <<>>, log |-> <<>>,
     returned |-> TRUE, result |-> <<>>]

(***************************************************************************)
(* The state after NetLSD(scale_min, scale_max, scale_steps,               *)
(* approximations): the constructor validates nothing.                     *)
(***************************************************************************)
Constructed(bounds, steps, ks) ==
    /\ \E sb \in bounds : scale_min = sb[1] /\ scale_max = sb[2]
    /\ scale_steps \in steps
    /\ approximations \in ks
    /\ _embedding = init_embedding
    /\ graphs = <<>>
    /\ call = NoCall
    /\ fitted = [done |-> FALSE, shrunk |-> FALSE, graphs |-> <<>>]

Init == Constructed(ScaleBounds, BatchScaleSteps, BatchApproximations)

InitGraph == Constructed(ScaleBounds, ScaleSteps, Approximations)

\* fit's effect once every graph of the batch has its outcome (all those after
\* the first to raise are never computed, and their graphs never touched).
FitOutcome(batch, results) ==
    LET first == FirstRaise(results)
        after == [i \in 1..Len(batch) |->
                    IF first = 0 \/ i <= first THEN results[i].graph ELSE batch[i]]
    IN /\ _embedding' = fit_assign(_embedding, results)
       /\ graphs' = after
       /\ call' = [op |-> "fit",
                   error |-> IF first = 0 THEN "none" ELSE results[first].error,
                   index |-> first,
                   args |-> batch,
                   log |-> IF first = 0 THEN results ELSE SubSeq(results, 1, first),
                   returned |-> first = 0,
                   result |-> <<>>]
       /\ fitted' = IF first = 0
                    THEN [done |-> TRUE,
                          shrunk |-> Len(batch) < Len(_embedding.value),
                          graphs |-> after]
                    ELSE fitted
       /\ UNCHANGED <<scale_min, scale_max, scale_steps, approximations>>

\* fit(batch).  diverges names the graph of the batch on which ARPACK does
\* not converge (0: it converges on all).
Fit(batch, diverges) ==
    FitOutcome(batch, [i \in 1..Len(batch) |-> _calculate_netlsd(batch[i], i # diverges)])

\* get_embedding()
GetEmbedding ==
    /\ call' = [op |-> "get_embedding",
                error |-> IF _embedding.bound THEN "none" ELSE "AttributeError",
                index |-> 0,
                args |-> <<>>,
                log |-> <<>>,
                returned |-> _embedding.bound,
                result |-> IF _embedding.bound THEN np_array(_embedding.value) ELSE <<>>]
    /\ graphs' = <<>>
    /\ UNCHANGED <<scale_min, scale_max, scale_steps, approximations, _embedding, fitted>>

CalculateOutcome(graph, res) ==
    /\ call.op = "__init__"
    /\ graphs' = <<res.graph>>
    /\ call' = [op |-> "_calculate_netlsd",
                error |-> res.error,
                index |-> IF res.error = "none" THEN 0 ELSE 1,
                args |-> <<graph>>,
                log |-> <<res>>,
                returned |-> res.error = "none",
                result |-> IF res.error = "none" THEN <<res.row>> ELSE <<>>]
    /\ UNCHANGED <<scale_min, scale_max, scale_steps, approximations, _embedding, fitted>>

\* _calculate_netlsd(graph) called on its own, once, on a fresh instance.
CalculateNetLSD(graph, converged) ==
    CalculateOutcome(graph, _calculate_netlsd(graph, converged))

Next ==
    \/ \E batch \in Batches, diverges \in 0..MaxBatch :
          diverges <= Len(batch) /\ Fit(batch, diverges)
    \/ GetEmbedding

Spec == Init /\ [][Next]_vars

NextGraph ==
    \E graph \in GraphPool : \E converged \in BOOLEAN : CalculateNetLSD(graph, converged)

SpecGraph == InitGraph /\ [][NextGraph]_vars

(***************************************************************************)
(* Properties.                                                             *)
(***************************************************************************)
\* The row _calculate_netlsd computes for a graph when ARPACK converges.
TraceOf(graph) == _calculate_netlsd(graph, TRUE).row

\* An entry that is exactly 1.0: every term is exp(0) and there are as many
\* terms as the divisor.
IsOne(entry) == entry.decay = <<>> /\ entry.ones = entry.nodes

InvalidConfig == scale_steps <= 0 \/ approximations <= 0 \/ scale_min >= scale_max

\* C1: after a successful fit(graphs) the stored matrix has one row per input
\* graph, every row has length scale_steps whatever the graph's node count and
\* eigenvalue branch, and row i is the heat kernel trace of graphs[i].
C1_OneRowPerGraphInOrder ==
    (call.op = "fit" /\ call.returned) =>
        /\ _embedding.bound
        /\ Len(np_array(_embedding.value)) = Len(call.args)
        /\ \A i \in 1..Len(call.args) :
              /\ Len(np_array(_embedding.value)[i]) = scale_steps
              /\ np_array(_embedding.value)[i] = TraceOf(call.args[i])

\* A fit of two graphs of different node counts that took different branches
\* and produced different rows.
C1_Witness ==
    /\ call.op = "fit" /\ call.returned /\ Len(call.args) = 2
    /\ scale_steps = 3
    /\ call.args[1].n # call.args[2].n
    /\ call.log[1].branch = "exact" /\ call.log[2].branch = "approximate"
    /\ _embedding.value[1] # _embedding.value[2]

C3_NotFittedRaises ==
    (call.op = "get_embedding" /\ ~fitted.done) =>
        /\ call.error = "AttributeError"
        /\ ~call.returned
        /\ call.result = <<>>

C3_Witness == call.op = "get_embedding" /\ ~fitted.done /\ call.error = "AttributeError"

\* C4: after any sequence of fits, get_embedding() returns exactly the rows of
\* the most recent completed fit's graphs, none kept from an earlier fit.
C4_LastFitOnly ==
    (call.op = "get_embedding" /\ fitted.done) =>
        /\ call.returned
        /\ call.error = "none"
        /\ call.result = [i \in 1..Len(fitted.graphs) |-> TraceOf(fitted.graphs[i])]

\* get_embedding() after a fit of one graph that replaced a longer collection.
C4_Witness ==
    /\ call.op = "get_embedding" /\ call.returned
    /\ fitted.shrunk
    /\ Len(fitted.graphs) = 1
    /\ Len(call.result) = 1

\* C5: fit does not mutate the caller's graphs: each has the edge set,
\* self-loops included, it was passed with.
C5_InputGraphsUnchanged == call.op = "fit" => graphs = call.args

\* C6: a fit that raises on some graph of the batch leaves the stored
\* collection exactly as it was before the call.
C6_FailedFitKeepsCollection ==
    [][(call'.op = "fit" /\ ~call'.returned) => _embedding' = _embedding]_vars

\* A fit that raised on its second graph, after computing the first, over a
\* stored collection of two rows.
C6_Witness ==
    /\ call.op = "fit" /\ ~call.returned
    /\ call.index = 2 /\ call.error = "ArpackNoConvergence"
    /\ call.log[1].error = "none"
    /\ _embedding.bound /\ Len(_embedding.value) = 2

\* C7: non-positive scale_steps or approximations, or scale_min >= scale_max,
\* are refused with a configuration error at construction or validation,
\* before any graph is processed: under such a configuration no call gets to
\* process a graph, and a fit ends with that error.
C7_InvalidConfigRejected ==
    InvalidConfig =>
        /\ call.log = <<>>
        /\ call.op = "fit" => call.error = "ConfigurationError"

\* C8: two isolated nodes and no edges take the exact branch, and the trace
\* vector is 1.0 at every time scale.
C8_IsolatedPairAllOnes ==
    (call.op = "_calculate_netlsd" /\ call.args = <<Graph(2, {})>>) =>
        /\ call.log[1].branch = "exact"
        /\ \/ call.returned
           \/ call.error = "ArpackNoConvergence"
           \/ scale_steps < 0 /\ call.error = "ValueError"
        /\ call.returned =>
              /\ Len(call.result[1]) = scale_steps
              /\ \A idx \in 1..scale_steps : IsOne(call.result[1][idx])

C8_Witness ==
    /\ call.op = "_calculate_netlsd" /\ call.args = <<Graph(2, {})>>
    /\ approximations = DefaultApproximations
    /\ scale_min = -2 /\ scale_max = 2 /\ scale_steps = 3
    /\ call.returned
    /\ \A idx \in 1..3 : IsOne(call.result[1][idx])

\* C9: for n >= 1 nodes and k > 0 approximations the exact branch is taken
\* exactly when 2k + 2 >= n, and there the estimator yields eigenvalues: a k
\* too large for n is no failure (only ARPACK not converging is).  Stated of
\* a validly configured instance.
C9_BranchByThreshold ==
    (call.op = "_calculate_netlsd" /\ approximations > 0 /\ ~InvalidConfig) =>
        /\ call.log[1].branch = "exact" <=> 2 * approximations + 2 >= call.log[1].nv
        /\ call.log[1].branch = "exact" =>
              \/ call.log[1].eigen_values # <<>>
              \/ call.error = "ArpackNoConvergence"

\* C10: on the approximate branch (k > 0, 2k + 2 < n) the estimate has length
\* n, starts with the lower band, ends with the upper band, and its n - 2k
\* interior slots are evenly spaced between the lower band's last value and
\* the upper band's first.  Stated of a validly configured instance.
C10_BandsAndInterpolation ==
    (/\ call.op = "_calculate_netlsd"
     /\ approximations > 0 /\ ~InvalidConfig
     /\ 2 * approximations + 2 < call.log[1].nv
     /\ call.error # "ArpackNoConvergence") =>
        LET r == call.log[1]
            k == approximations
            n == r.nv
        IN /\ Len(r.eigen_values) = n
           /\ SubSeq(r.eigen_values, 1, k) = r.lo_eivals
           /\ SubSeq(r.eigen_values, n - k + 1, n) = r.up_eivals
           /\ \A j \in 1..(n - 2 * k) :
                 r.eigen_values[k + j]
                   = linspace(r.lo_eivals[k], r.up_eivals[1], n - 2 * k + 2)[j + 1]

====
